---- MODULE Spec2Model ----
(***************************************************************************)
(* Rule-based credit scoring from payslip data (src/main.py).              *)
(*                                                                         *)
(* Numbers.  The program computes with Python floats; the model computes   *)
(* with integers.  Money is in whole currency units, loan_to_net_ratio is  *)
(* in hundredths (RatioScale), and every comparison "x / y >= p / q" of    *)
(* the source is evaluated exactly by cross-multiplication, which is valid *)
(* wherever the source has already established y > 0.  IEEE division and   *)
(* multiplication are correctly rounded and therefore monotone, and on the *)
(* values drawn here the float result and the exact result fall on the     *)
(* same side of every threshold.                                           *)
(*                                                                         *)
(* Time.  A datetime is a pair (day, hour): a day number and the hour of   *)
(* that day, HoursPerDay hours to the day.                                 *)
(***************************************************************************)
EXTENDS Integers, FiniteSets, Sequences, TLC

VARIABLES data, requested_loan_amount, now, pc, result, response, history

vars == <<data, requested_loan_amount, now, pc, result, response, history>>

-----------------------------------------------------------------------------
(* Optional values: Optional[float] = None of the pydantic models.          *)

None == [some |-> FALSE, val |-> 0]

Some(v) == [some |-> TRUE, val |-> v]

RatioScale == 100

HoursPerDay == 24

(* x / y >= num / den and x / y > num / den, for y > 0 and den > 0.          *)
RatioGE(x, y, num, den) == x * den >= num * y

RatioGT(x, y, num, den) == x * den > num * y

Max(a, b) == IF a >= b THEN a ELSE b

Min(a, b) == IF a <= b THEN a ELSE b

-----------------------------------------------------------------------------
(* employment_start_date strings.  A string is described by its shape:      *)
(*   form "empty"     the empty string                                      *)
(*   form "malformed" a non-empty string that is not an ISO date            *)
(*   form "date"      YYYY-MM-DD                                            *)
(*   form "datetime"  YYYY-MM-DD <sep> HH:00[+00:00], sep one character     *)

NoDate == [some |-> FALSE, form |-> "empty", sep |-> "T", day |-> 0, hour |-> 0, tz |-> FALSE]

DateStr(d) == [some |-> TRUE, form |-> "date", sep |-> "T", day |-> d, hour |-> 0, tz |-> FALSE]

DateTimeStr(d, s, h, z) == [some |-> TRUE, form |-> "datetime", sep |-> s, day |-> d, hour |-> h, tz |-> z]

EmptyStr == [some |-> TRUE, form |-> "empty", sep |-> "T", day |-> 0, hour |-> 0, tz |-> FALSE]

MalformedStr == [some |-> TRUE, form |-> "malformed", sep |-> "T", day |-> 0, hour |-> 0, tz |-> FALSE]

(* start_date_str.split('T')[0]: everything before the first 'T'.           *)
SplitT(s) ==
    IF s.form = "datetime" /\ s.sep = "T"
    THEN [s EXCEPT !.form = "date", !.hour = 0, !.tz = FALSE]
    ELSE s

(* datetime.fromisoformat: a date, or a date and a time joined by any one   *)
(* character, with an optional UTC offset; ValueError on anything else.     *)
fromisoformat(s) ==
    IF s.form \in {"date", "datetime"}
    THEN [ok |-> TRUE, day |-> s.day, hour |-> s.hour, aware |-> s.tz]
    ELSE [ok |-> FALSE, day |-> 0, hour |-> 0, aware |-> FALSE]

(* (datetime.now() - start_date).days: timedelta normalises to              *)
(* days = floor(difference / one day).                                      *)
tenure_days(clock, start) ==
    ((clock.day - start.day) * HoursPerDay + (clock.hour - start.hour)) \div HoursPerDay

-----------------------------------------------------------------------------
(* Pillar 1: income strength and stability.                                 *)

IncomeRatioGuard(net, gross) == net.some /\ gross.some /\ gross.val > 0

(* Variant: the 0.75 and 0.65 awards exchanged.                             *)
IncomeRatioPointsSwapped(net, gross) ==
    IF IncomeRatioGuard(net, gross)
    THEN IF RatioGE(net.val, gross.val, 85, 100) THEN 20
         ELSE IF RatioGE(net.val, gross.val, 75, 100) THEN 10
         ELSE IF RatioGE(net.val, gross.val, 65, 100) THEN 15
         ELSE 5
    ELSE 0

IncomeRatioPoints(net, gross) ==
    IF IncomeRatioGuard(net, gross)
    THEN IF RatioGE(net.val, gross.val, 85, 100) THEN 20
         ELSE IF RatioGE(net.val, gross.val, 75, 100) THEN 15
         ELSE IF RatioGE(net.val, gross.val, 65, 100) THEN 10
         ELSE 5
    ELSE 0

(* Variant: the gross_salary > 0 test left out.                             *)
CompositionGuardNoZeroCheck(basic, gross) == basic.some /\ gross.some

CompositionGuard(basic, gross) == basic.some /\ gross.some /\ gross.val > 0

CompositionPoints(basic, gross) ==
    IF CompositionGuard(basic, gross)
    THEN IF RatioGE(basic.val, gross.val, 8, 10) THEN 10
         ELSE IF RatioGE(basic.val, gross.val, 6, 10) THEN 5
         ELSE 0
    ELSE 0

(* indicators.get("income_stability_flag") is truthy only for True.         *)
StabilityPoints(flag) == IF flag.some /\ flag.val THEN 5 ELSE 0

(* Pillar 2: existing debt burden.  ratio is in hundredths.                 *)
DebtBurdenPoints(ratio) ==
    IF ratio.some
    THEN IF ratio.val * 10 <= 1 * RatioScale THEN 25
         ELSE IF ratio.val * 100 <= 25 * RatioScale THEN 15
         ELSE IF ratio.val * 10 <= 4 * RatioScale THEN 5
         ELSE 0
    ELSE 0

NoGarnishmentPoints(garnishments) ==
    IF ~garnishments.some \/ garnishments.val = 0 THEN 10 ELSE 0

(* Pillar 3: financial discipline.                                          *)
DisposableGuard(disposable, net) == disposable.some /\ net.some /\ net.val > 0

DisposablePoints(disposable, net) ==
    IF DisposableGuard(disposable, net)
    THEN IF RatioGT(disposable.val, net.val, 4, 10) THEN 15
         ELSE IF RatioGE(disposable.val, net.val, 25, 100) THEN 10
         ELSE IF RatioGE(disposable.val, net.val, 15, 100) THEN 5
         ELSE 0
    ELSE 0

PensionGuard(pension, net) ==
    pension.some /\ pension.val > 0 /\ net.some /\ net.val > 0

PensionPoints(pension, net) ==
    IF PensionGuard(pension, net) /\ RatioGE(pension.val, net.val, 5, 100)
    THEN 5
    ELSE 0

(* Pillar 4: employment stability.  A ValueError of fromisoformat and the   *)
(* TypeError of subtracting an offset-aware datetime from the naive         *)
(* datetime.now() are both swallowed by the except clause.                  *)
TenurePoints(start_date_str, clock) ==
    IF ~start_date_str.some \/ start_date_str.form = "empty" THEN 0
    ELSE LET start_date == fromisoformat(SplitT(start_date_str)) IN
         IF ~start_date.ok THEN 0
         ELSE IF start_date.aware THEN 0
         ELSE IF tenure_days(clock, start_date) > 3 * 365 THEN 10
         ELSE IF tenure_days(clock, start_date) > 1 * 365 THEN 5
         ELSE 0

PillarScore(features, clock) ==
    IncomeRatioPoints(features.net_salary, features.gross_salary)
    + CompositionPoints(features.basic_salary, features.gross_salary)
    + StabilityPoints(features.indicators.income_stability_flag)
    + DebtBurdenPoints(features.indicators.loan_to_net_ratio)
    + NoGarnishmentPoints(features.garnishments)
    + DisposablePoints(features.indicators.disposable_income, features.net_salary)
    + PensionPoints(features.pension, features.net_salary)
    + TenurePoints(features.employment_start_date, clock)

-----------------------------------------------------------------------------
(* Loan affordability assessment.                                           *)

(* Variant: the net_salary > 0 test left out.                               *)
AffordabilityGuardPresentOnly(net) == net.some

AffordabilityGuard(net) == net.some /\ net.val > 0

(* Variant: the penalty subtracted without the floor at 0.                  *)
PenaliseNoFloor(score, penalty) == score - penalty

(* One subtraction of the source: score = max(score - penalty, 0).          *)
Penalise(score, penalty) == Max(score - penalty, 0)

(* loan_affordability_ratio = loan / (net_salary * 12) against 8, 5, 3, 2.  *)
IncomeMultiplePenalty(loan, net) ==
    IF RatioGT(loan, net.val * 12, 8, 1) THEN 30
    ELSE IF RatioGT(loan, net.val * 12, 5, 1) THEN 20
    ELSE IF RatioGT(loan, net.val * 12, 3, 1) THEN 10
    ELSE IF RatioGT(loan, net.val * 12, 2, 1) THEN 5
    ELSE 0

LARGE_LOAN == 100000

(* Variant: "==" in place of ">=".                                          *)
IsExactlyLargeLoan(loan) == loan = LARGE_LOAN

IsLargeLoan(loan) == loan >= LARGE_LOAN

(* Variant: ">=" in place of ">" on both tiers.                             *)
PaymentPenaltyInclusive(loan, net) ==
    IF RatioGE(loan, 100 * net.val, 5, 10) THEN 20
    ELSE IF RatioGE(loan, 100 * net.val, 35, 100) THEN 10
    ELSE 0

(* monthly_payment_estimate = loan * 0.01, so payment_to_income_ratio is    *)
(* loan / (100 * net_salary).                                               *)
PaymentPenalty(loan, net) ==
    IF RatioGT(loan, 100 * net.val, 5, 10) THEN 20
    ELSE IF RatioGT(loan, 100 * net.val, 35, 100) THEN 10
    ELSE 0

(* disposable_income < monthly_payment_estimate.                            *)
DisposableShortfallPenalty(loan, disposable) ==
    IF disposable.some /\ 100 * disposable.val < loan THEN 15 ELSE 0

Affordability(score, features, loan) ==
    IF AffordabilityGuard(features.net_salary)
    THEN LET s1 == Penalise(score, IncomeMultiplePenalty(loan, features.net_salary))
             s2 == Penalise(s1, PaymentPenalty(loan, features.net_salary))
             s3 == Penalise(s2, DisposableShortfallPenalty(loan, features.indicators.disposable_income))
         IN  IF IsLargeLoan(loan) THEN s3 ELSE s1
    ELSE score

(* Variant: the garnishment cap set to the debt cap's 40.                   *)
GarnishmentCapForty(score, garnishments) ==
    IF garnishments.some /\ garnishments.val > 0 THEN Min(score, 40) ELSE score

(* Variant: the debt cap triggered above 0.6 instead of 0.5.                *)
DebtCapLate(score, ratio) ==
    IF ratio.some /\ ratio.val * 10 > 6 * RatioScale THEN Min(score, 40) ELSE score

(* Red-flag caps.                                                           *)
GarnishmentCap(score, garnishments) ==
    IF garnishments.some /\ garnishments.val > 0 THEN Min(score, 30) ELSE score

DebtCap(score, ratio) ==
    IF ratio.some /\ ratio.val * 10 > 5 * RatioScale THEN Min(score, 40) ELSE score

RedFlagCaps(score, features) ==
    DebtCap(GarnishmentCap(score, features.garnishments),
            features.indicators.loan_to_net_ratio)

-----------------------------------------------------------------------------
(* calculate_credit_score.  Python raises ZeroDivisionError when a float    *)
(* division is evaluated with a zero divisor; the divisions of the source   *)
(* are gross_salary (twice), net_salary (three times) and net_salary * 12.  *)

MISSING_MSG == "Critical salary information is missing. Cannot calculate score."

DivisionByZero(features) ==
    \/ IncomeRatioGuard(features.net_salary, features.gross_salary)
         /\ features.gross_salary.val = 0
    \/ CompositionGuard(features.basic_salary, features.gross_salary)
         /\ features.gross_salary.val = 0
    \/ DisposableGuard(features.indicators.disposable_income, features.net_salary)
         /\ features.net_salary.val = 0
    \/ PensionGuard(features.pension, features.net_salary)
         /\ features.net_salary.val = 0
    \/ AffordabilityGuard(features.net_salary)
         /\ features.net_salary.val = 0

(* Variant: "and" in place of "or".                                         *)
CriticalMissingBoth(features) == ~features.net_salary.some /\ ~features.gross_salary.some

CriticalMissing(features) == ~features.net_salary.some \/ ~features.gross_salary.some

Raise(exc, msg) == [kind |-> "raise", exc |-> exc, msg |-> msg, score |-> 0]

Return(score) == [kind |-> "return", exc |-> "", msg |-> "", score |-> score]

calculate_credit_score(features, loan, clock) ==
    IF DivisionByZero(features) THEN Raise("ZeroDivisionError", "float division by zero")
    ELSE IF CriticalMissing(features) THEN Raise("ValueError", MISSING_MSG)
    ELSE Return(Min(RedFlagCaps(Affordability(PillarScore(features, clock), features, loan),
                                features), 100))

-----------------------------------------------------------------------------
(* POST /evaluate_credit.  The handler scores with a fixed loan amount and  *)
(* builds a CreditScoreResponse, whose credit_score field is validated      *)
(* (ge=0, le=100); pydantic's ValidationError is a ValueError, so it takes  *)
(* the first except clause like the engine's own ValueError.                *)

ENDPOINT_LOAN == 100000

HttpOk(score) == [status |-> 200, detail |-> "", credit_score |-> score]

HttpError(status, detail) == [status |-> status, detail |-> detail, credit_score |-> 0]

ResponseModelValid(score) == score >= 0 /\ score <= 100

evaluate_credit_score(features, clock) ==
    LET r == calculate_credit_score(features, ENDPOINT_LOAN, clock) IN
    IF r.kind = "return"
    THEN IF ResponseModelValid(r.score) THEN HttpOk(r.score)
         ELSE HttpError(422, "validation error for CreditScoreResponse")
    ELSE IF r.exc = "ValueError" THEN HttpError(422, r.msg)
    ELSE HttpError(500, "An unexpected error occurred during score calculation")

-----------------------------------------------------------------------------
(* Inputs.                                                                  *)

MaxNetK == 2

MaxLoanK == 5

MaxHour == 3

Today == 2000

NetSalaries == {None, Some(5000)} \cup {Some(k * 1000) : k \in -1..MaxNetK}

GrossSalaries == {None, Some(0), Some(2500), Some(6000)}

BasicSalaries == {None, Some(1500), Some(5000)}

Pensions == {None, Some(0), Some(300)}

Garnishments == {None, Some(0), Some(200)}

LoanToNetRatios == {None, Some(5), Some(25), Some(40), Some(50), Some(60)}

DisposableIncomes == {None, Some(500), Some(1000), Some(2200)}

StabilityFlags == {None, Some(FALSE), Some(TRUE)}

StartDates == {NoDate, MalformedStr, DateStr(Today - 4 * 365)}

LoanAmounts == {99999} \cup {k * 50000 : k \in 0..MaxLoanK}

MkFeatures(net, gross, basic, start, pension, garn, ratio, disp, flag) ==
    [net_salary |-> net, gross_salary |-> gross, basic_salary |-> basic,
     employment_start_date |-> start, pension |-> pension, garnishments |-> garn,
     indicators |-> [income_stability_flag |-> flag, loan_to_net_ratio |-> ratio,
                     disposable_income |-> disp]]

FeatureSets ==
    {MkFeatures(n, g, b, d, p, ga, r, di, fl) :
        n \in NetSalaries, g \in GrossSalaries, b \in BasicSalaries, d \in StartDates,
        p \in Pensions, ga \in Garnishments, r \in LoanToNetRatios,
        di \in DisposableIncomes, fl \in StabilityFlags}

NoResult == [kind |-> "none", exc |-> "", msg |-> "", score |-> 0]

NoResponse == [status |-> 0, detail |-> "", credit_score |-> 0]

-----------------------------------------------------------------------------
(* The scoring engine and the endpoint, applied to one request.             *)

Init ==
    /\ data \in FeatureSets
    /\ requested_loan_amount = 0
    /\ now = [day |-> Today, hour |-> 9]
    /\ pc = "ready"
    /\ result = NoResult
    /\ response = NoResponse
    /\ history = {}

Calculate ==
    /\ pc = "ready"
    /\ \E loan \in LoanAmounts :
         /\ requested_loan_amount' = loan
         /\ result' = calculate_credit_score(data, loan, now)
    /\ pc' = "done"
    /\ history' = {result'}
    /\ UNCHANGED <<data, now, response>>

EvaluateCredit ==
    /\ pc = "ready"
    /\ requested_loan_amount' = ENDPOINT_LOAN
    /\ result' = calculate_credit_score(data, ENDPOINT_LOAN, now)
    /\ response' = evaluate_credit_score(data, now)
    /\ pc' = "responded"
    /\ history' = {result'}
    /\ UNCHANGED <<data, now>>

Next == Calculate \/ EvaluateCredit

Spec == Init /\ [][Next]_vars

-----------------------------------------------------------------------------
(* The engine invoked repeatedly during one calendar day.                   *)

StartDays ==
    {Today - 3 * 365 - 2, Today - 3 * 365 - 1, Today - 3 * 365,
     Today - 365 - 1, Today - 365, Today, Today + 1}

StartHours == {0, 2}

DayStartDates ==
    {NoDate, EmptyStr, MalformedStr}
    \cup {DateStr(d) : d \in StartDays}
    \cup {DateTimeStr(d, s, h, z) :
            d \in StartDays, s \in {"T", " "}, h \in StartHours, z \in BOOLEAN}

DayFeatureSets ==
    {MkFeatures(n, g, None, d, None, ga, None, None, None) :
        n \in {Some(2000), Some(5000)}, g \in {Some(2500), Some(6000)},
        d \in DayStartDates, ga \in {None, Some(200)}}

InitDay ==
    /\ data \in DayFeatureSets
    /\ requested_loan_amount = ENDPOINT_LOAN
    /\ now = [day |-> Today, hour |-> 0]
    /\ pc = "ready"
    /\ result = NoResult
    /\ response = NoResponse
    /\ history = {}

(* The wall clock advances within the day.                                  *)
Tick ==
    /\ now.hour < MaxHour
    /\ now' = [now EXCEPT !.hour = now.hour + 1]
    /\ UNCHANGED <<data, requested_loan_amount, pc, result, response, history>>

Invoke ==
    /\ result' = calculate_credit_score(data, requested_loan_amount, now)
    /\ history' = history \cup {result'}
    /\ pc' = "done"
    /\ UNCHANGED <<data, requested_loan_amount, now, response>>

NextDay == Tick \/ Invoke

SpecDay == InitDay /\ [][NextDay]_vars

-----------------------------------------------------------------------------
(* The engine on a grid of salaries that puts net / gross on, just below    *)
(* and just above each threshold of the income rule.                        *)

MaxGridNet == 86

GridNets == -1..MaxGridNet

GridGrosses == {1, 20, 40, 100}

IncomeFeatureSets ==
    {MkFeatures(Some(n), Some(g), None, NoDate, None, None, None, None, None) :
        n \in GridNets, g \in GridGrosses}

InitIncome ==
    /\ data \in IncomeFeatureSets
    /\ requested_loan_amount = 0
    /\ now = [day |-> Today, hour |-> 9]
    /\ pc = "ready"
    /\ result = NoResult
    /\ response = NoResponse
    /\ history = {}

NextIncome == Calculate

SpecIncome == InitIncome /\ [][NextIncome]_vars

-----------------------------------------------------------------------------
(* Properties.                                                              *)

Called == pc \in {"done", "responded"}

Returned == Called /\ result.kind = "return"

(* The score before the red-flag caps and the final clamp.                  *)
UncappedScore ==
    Affordability(PillarScore(data, now), data, requested_loan_amount)

(* C1 -- Boundedness: whenever calculate_credit_score returns, the score is *)
(* an integer between 0 and 100 inclusive.                                  *)
C1_Boundedness == Returned => result.score \in 0..100

(* A call whose penalties exceed the pillar points, floored at 0.           *)
C1_Witness ==
    /\ Returned
    /\ result.score = 0
    /\ PillarScore(data, now)
         < IncomeMultiplePenalty(requested_loan_amount, data.net_salary)
             + PaymentPenalty(requested_loan_amount, data.net_salary)
    /\ IsLargeLoan(requested_loan_amount)

(* C2 -- Critical data precondition: when net_salary or gross_salary is     *)
(* absent the call raises the missing-critical-data error with the fixed    *)
(* message and returns no score, whatever the other fields and the loan.    *)
C2_CriticalData ==
    (Called /\ (~data.net_salary.some \/ ~data.gross_salary.some))
        => result = Raise("ValueError", MISSING_MSG)

C2_Witness ==
    /\ pc = "done"
    /\ data.net_salary.some
    /\ ~data.gross_salary.some
    /\ data.basic_salary.some
    /\ result.kind = "raise"

(* C3 -- Garnishment cap: when garnishments is present and positive and a   *)
(* score is returned, the score is at most 30.                              *)
C3_GarnishmentCap ==
    (Returned /\ data.garnishments.some /\ data.garnishments.val > 0)
        => result.score <= 30

(* The cap acted: the score before the caps was above 30.                   *)
C3_Witness ==
    /\ Returned
    /\ data.garnishments.some /\ data.garnishments.val > 0
    /\ UncappedScore > 30
    /\ result.score = 30

(* C4 -- Debt-burden cap: when loan_to_net_ratio is present and above 0.5   *)
(* and a score is returned, the score is at most 40.                        *)
C4_DebtBurdenCap ==
    (Returned /\ data.indicators.loan_to_net_ratio.some
              /\ data.indicators.loan_to_net_ratio.val * 10 > 5 * RatioScale)
        => result.score <= 40

C4_Witness ==
    /\ Returned
    /\ data.indicators.loan_to_net_ratio = Some(60)
    /\ ~data.garnishments.some
    /\ UncappedScore > 40
    /\ result.score = 40

(* C5 -- Endpoint error mapping: a request whose net_salary or gross_salary *)
(* is absent is answered with HTTP 422 carrying the fixed message, never    *)
(* 200 and never 500.                                                       *)
C5_EndpointMissingSalary ==
    (pc = "responded" /\ (~data.net_salary.some \/ ~data.gross_salary.some))
        => response = HttpError(422, MISSING_MSG)

C5_Witness ==
    /\ pc = "responded"
    /\ ~data.net_salary.some
    /\ data.gross_salary = Some(0)
    /\ data.basic_salary.some
    /\ response.status = 422

ScenarioA ==
    MkFeatures(Some(5000), Some(6000), Some(5000), DateStr(Today - 4 * 365),
               Some(300), Some(0), Some(5), Some(2200), None)

ScenarioB ==
    MkFeatures(Some(2000), Some(2500), None, NoDate, None, None, None, None, None)

(* C6 -- Rule-table conformance: with a requested loan of 100000 the engine *)
(* returns exactly 90 for Scenario A and exactly 5 for Scenario B.          *)
C6_Scenarios ==
    (pc = "done" /\ requested_loan_amount = 100000)
        => /\ data = ScenarioA => result = Return(90)
           /\ data = ScenarioB => result = Return(5)

C6_Witness ==
    /\ pc = "done"
    /\ requested_loan_amount = 100000
    /\ data = ScenarioB
    /\ result.kind = "return"

(* C7 -- Determinism: all invocations made on one calendar day with the     *)
(* same feature data and loan amount return the same score.                 *)
C7_SameDayDeterminism == Cardinality(history) <= 1

(* C8 -- Monotonicity (income): with both salaries present and gross > 0,   *)
(* the income-ratio contribution is one of 5, 10, 15, 20, and no pair of    *)
(* salaries with a net_to_gross at least as large has a smaller one.        *)
C8_IncomeMonotone ==
    (pc = "done" /\ data.gross_salary.val > 0)
        => LET c == IncomeRatioPoints(data.net_salary, data.gross_salary) IN
           /\ c \in {5, 10, 15, 20}
           /\ \A n2 \in GridNets, g2 \in GridGrosses :
                 n2 * data.gross_salary.val >= data.net_salary.val * g2
                     => IncomeRatioPoints(Some(n2), Some(g2)) >= c

(* net_to_gross exactly 0.85, reached from 0.84 on the same gross.          *)
C8_Witness ==
    /\ pc = "done"
    /\ data.net_salary = Some(85)
    /\ data.gross_salary = Some(100)
    /\ IncomeRatioPoints(data.net_salary, data.gross_salary) = 20
    /\ IncomeRatioPoints(Some(84), data.gross_salary) = 15

(* C9 -- Missing salary data is the only error: with both salaries present  *)
(* the call returns a score, also for zero or negative salaries, and an     *)
(* employment_start_date that fails to parse gives the score of an absent   *)
(* one.                                                                     *)
C9_OnlyError ==
    (Called /\ data.net_salary.some /\ data.gross_salary.some)
        => /\ result.kind = "return"
           /\ ~fromisoformat(SplitT(data.employment_start_date)).ok
                => result = calculate_credit_score(
                                [data EXCEPT !.employment_start_date = NoDate],
                                requested_loan_amount, now)

C9_Witness ==
    /\ pc = "done"
    /\ data.net_salary = Some(0)
    /\ data.gross_salary = Some(0)
    /\ data.basic_salary.some
    /\ data.pension.some
    /\ data.indicators.disposable_income.some
    /\ data.employment_start_date = MalformedStr
    /\ result.kind = "return"

(* C10 -- The score is non-increasing in the requested loan amount: no      *)
(* larger loan amount gives the same features a higher score.               *)
C10_LoanMonotone ==
    Returned
        => \A loan2 \in LoanAmounts :
              loan2 >= requested_loan_amount
                  => calculate_credit_score(data, loan2, now).score <= result.score

(* Crossing the large-loan threshold lowers the score.                      *)
C10_Witness ==
    /\ Returned
    /\ requested_loan_amount = 99999
    /\ calculate_credit_score(data, 100000, now).score < result.score
    /\ result.score < PillarScore(data, now)

====
